---- MODULE Spec2Model ----
(***************************************************************************)
(* Model of the academia module (Odoo 19 addon): session scheduling,       *)
(* class capacity, the Matricula workflow and the invoices it generates.   *)
(*                                                                         *)
(* Every request (create, write, button action) runs in one transaction:   *)
(* the field values are written, the stored computed fields that depend on *)
(* them are recomputed, the @api.constrains methods whose fields were      *)
(* written or recomputed and the SQL constraints are evaluated on the      *)
(* resulting records, and an exception rolls the whole request back.       *)
(* Times are in half hours (18 = 9.0 h, 21 = 10.5 h), dates in days.       *)
(***************************************************************************)
EXTENDS Integers, FiniteSets, Sequences, TLC

VARIABLES
    sesiones,   \* academia.sesion: sequence of records, the id is the index
    matriculas, \* academia.matricula: sequence of records
    facturas,   \* academia.facturacion: sequence of records
    alumnos,    \* academia.alumno: record per student
    clases,     \* academia.clase: record per class
    cursos,     \* academia.curso: record per course
    alumno_clase_rel,   \* the many2many table academia_alumno_clase_rel
    alumno_sesion_rel,  \* the many2many table academia_alumno_sesion_rel
    secuencia,  \* numbers drawn so far from ir.sequence academia.facturacion
    today,      \* fields.Date.today()
    txs,        \* the requests in progress: one open transaction each
    last        \* the last request and its outcome

vars == <<sesiones, matriculas, facturas, alumnos, clases, cursos,
          alumno_clase_rel, alumno_sesion_rel, secuencia, today, txs, last>>

sesionVars == <<sesiones, alumno_sesion_rel>>

academiaVars == <<matriculas, facturas, alumnos, clases, cursos,
                  alumno_clase_rel, secuencia>>

(***************************************************************************)
(* Bounds and input domains.                                               *)
(***************************************************************************)
MaxSesiones == 2

Profesores == {"p1", "p2"}
Fechas == {1, 2}
StartTimes == {18, 21}
Durations == {0, 3, 4}
\* the day the clock shows: the earliest of the dates
Hoy == CHOOSE d \in Fechas : \A e \in Fechas : d <= e

\* the seats and attendees for which the statistics of a session are computed
MaxSeats == 20

MaxMatriculas == 2

MaxFacturas == 1

\* the invoices created where the scheduled action is run
MaxCobros == 2

Alumnos == {"a1", "a2"}
Clases == {"k1"}
Cursos == {"c1"}
\* the courses created after the start
CursosNuevos == {"c2"}
FechasInicio == {1, 2}
Descuentos == {0, 10}
MaxStudentsVals == {0, 1, 2}
Transacciones == {"t1", "t2"}
SeatsVals == {0, 1, 2}

SesionStates == {"draft", "confirmed", "done", "cancelled"}

(***************************************************************************)
(* ORM: write of vals on a record.                                         *)
(***************************************************************************)
Apply(rec, vals) ==
    [f \in DOMAIN rec |-> IF f \in DOMAIN vals THEN vals[f] ELSE rec[f]]

(***************************************************************************)
(* academia.sesion                                                         *)
(***************************************************************************)
Sesion_compute_end_time(rec) ==
    [rec EXCEPT !.end_time = rec.start_time + rec.duration]

\* @api.depends('start_time', 'duration')
Sesion_depends_end_time == {"start_time", "duration"}

\* the fields whose constraints are evaluated by a write of `written`:
\* the written ones and the stored computed ones they recompute
SesionTouched(written) ==
    written \cup (IF written \cap Sesion_depends_end_time # {}
                  THEN {"end_time"} ELSE {})

SesionRecompute(rec, written) ==
    IF written \cap Sesion_depends_end_time # {}
    THEN Sesion_compute_end_time(rec) ELSE rec

\* start1 < end2 AND end1 > start2
Solapa(sesion, other) ==
    /\ sesion.start_time < other.end_time
    /\ sesion.end_time > other.start_time

\* self.search(domain): a model with an `active` field is searched with the
\* implicit ('active', '=', True)
SesionSearchDomain(ss, id) ==
    {o \in DOMAIN ss :
        /\ ss[o].active
        /\ o # id
        /\ ss[o].profesor_id = ss[id].profesor_id
        /\ ss[o].date = ss[id].date
        /\ ss[o].state # "cancelled"}

\* TRUE when the method raises ValidationError for record id
Sesion_check_profesor_schedule(ss, id) ==
    \E other \in SesionSearchDomain(ss, id) : Solapa(ss[id], ss[other])

Sesion_constrains_profesor_schedule ==
    {"profesor_id", "date", "start_time", "end_time"}

Sesion_check_date(ss, id, hoy) ==
    ss[id].state = "done" /\ ss[id].date > hoy

Sesion_constrains_date == {"date"}

\* CHECK(duration > 0)
Sesion_sql_duration_positive(rec) == rec.duration > 0

\* sesion.alumno_ids: the students of the rows of the many2many table
Asistentes(rel, id) == {a \in Alumnos : <<a, id>> \in rel}

\* len(sesion.alumno_ids) > sesion.seats
Sesion_check_seats(ss, rel, id) ==
    Cardinality(Asistentes(rel, id)) > ss[id].seats

Sesion_constrains_seats == {"alumno_ids", "seats"}

\* CHECK(seats >= 0)
Sesion_sql_seats_positive(rec) == rec.seats >= 0

\* the rules the records ss and the attendance rel violate after a write of
\* `written` on id
SesionErrors(ss, rel, id, written, hoy) ==
    LET touched == SesionTouched(written) IN
    (IF /\ touched \cap Sesion_constrains_seats # {}
        /\ Sesion_check_seats(ss, rel, id)
     THEN {"seats"} ELSE {})
    \cup
    (IF /\ touched \cap Sesion_constrains_profesor_schedule # {}
        /\ Sesion_check_profesor_schedule(ss, id)
     THEN {"overlap"} ELSE {})
    \cup
    (IF /\ touched \cap Sesion_constrains_date # {}
        /\ Sesion_check_date(ss, id, hoy)
     THEN {"date"} ELSE {})
    \cup
    (IF /\ Sesion_sql_duration_positive(ss[id])
        /\ Sesion_sql_seats_positive(ss[id])
     THEN {} ELSE {"sql"})

\* curso_id is required and has no default: the caller gives "c1" unless
\* vals says otherwise
SesionDefaults ==
    [profesor_id |-> "p1", date |-> Hoy, start_time |-> 18, duration |-> 3,
     end_time |-> 0, seats |-> 15, state |-> "draft", active |-> TRUE,
     curso_id |-> "c1"]

\* curso_id is a foreign key to academia.curso
Sesion_fk_curso(rec, cs) ==
    IF rec.curso_id \in DOMAIN cs THEN {} ELSE {"fk"}

\* Sesion.create(vals)
SesionCreate(vals) ==
    /\ Len(sesiones) < MaxSesiones
    /\ LET id == Len(sesiones) + 1
           written == DOMAIN SesionDefaults
           rec == SesionRecompute(Apply(SesionDefaults, vals), written)
           ss == Append(sesiones, rec)
           errs == SesionErrors(ss, alumno_sesion_rel, id, written, today)
                   \cup Sesion_fk_curso(rec, cursos)
       IN  IF errs = {}
           THEN /\ sesiones' = ss
                /\ last' = [op |-> "create", id |-> id, errs |-> {}]
           ELSE /\ UNCHANGED sesiones
                /\ last' = [op |-> "create", id |-> id, errs |-> errs]
    /\ UNCHANGED <<alumno_sesion_rel, today, txs, academiaVars>>

\* Sesion.write(vals) on one record
SesionWrite(id, vals, op) ==
    /\ id \in DOMAIN sesiones
    /\ LET written == DOMAIN vals
           rec == SesionRecompute(Apply(sesiones[id], vals), written)
           ss == [sesiones EXCEPT ![id] = rec]
           errs == SesionErrors(ss, alumno_sesion_rel, id, written, today)
       IN  IF errs = {}
           THEN /\ sesiones' = ss
                /\ last' = [op |-> op, id |-> id, errs |-> {}]
           ELSE /\ UNCHANGED sesiones
                /\ last' = [op |-> op, id |-> id, errs |-> errs]
    /\ UNCHANGED <<alumno_sesion_rel, today, txs, academiaVars>>

Sesion_action_confirm(id) == SesionWrite(id, [state |-> "confirmed"], "state")

Sesion_action_done(id) == SesionWrite(id, [state |-> "done"], "state")

Sesion_action_cancel(id) == SesionWrite(id, [state |-> "cancelled"], "state")

Sesion_action_draft(id) == SesionWrite(id, [state |-> "draft"], "state")

\* archive / un-archive: write of the `active` field
Sesion_toggle_active(id) ==
    /\ id \in DOMAIN sesiones
    /\ SesionWrite(id, [active |-> ~sesiones[id].active], "active")

\* _compute_seats for a session with n attendees: occupancy_rate is kept
\* as the whole part of the percentage, which compares with 80 and 50 as the
\* percentage does
Sesion_compute_seats(rec, n) ==
    [rec EXCEPT !.total_asistentes = n,
                !.seats_reserved = n,
                !.seats_available = rec.seats - n,
                !.occupancy_rate = IF rec.seats > 0
                                   THEN (n * 100) \div rec.seats ELSE 0,
                !.is_full = (rec.seats - n <= 0)]

\* mutant: a full session is red before its state is looked at
Sesion_compute_color_llena(rec) ==
    [rec EXCEPT !.color =
        IF rec.is_full THEN 1
        ELSE IF rec.state = "cancelled" THEN 1
        ELSE IF rec.state = "done" THEN 10
        ELSE IF rec.occupancy_rate >= 80 THEN 2
        ELSE IF rec.occupancy_rate >= 50 THEN 3
        ELSE 4]

Sesion_compute_color(rec) ==
    [rec EXCEPT !.color =
        IF rec.state = "cancelled" THEN 1
        ELSE IF rec.state = "done" THEN 10
        ELSE IF rec.is_full THEN 1
        ELSE IF rec.occupancy_rate >= 80 THEN 2
        ELSE IF rec.occupancy_rate >= 50 THEN 3
        ELSE 4]

\* the statistics and the color of a session in state st with `seats` seats
\* and n attendees are computed
Sesion_compute(st, seats, n) ==
    /\ last' = [op |-> "compute", id |-> 0, errs |-> {},
                sesion |-> Sesion_compute_color(Sesion_compute_seats(
                    [state |-> st, seats |-> seats, total_asistentes |-> 0,
                     seats_reserved |-> 0, seats_available |-> 0,
                     occupancy_rate |-> 0, is_full |-> FALSE, color |-> 0],
                    n))]
    /\ UNCHANGED <<sesionVars, academiaVars, today, txs>>

\* Sesion.write({'seats': n})
Sesion_write_seats(id, n) ==
    /\ id \in DOMAIN sesiones
    /\ SesionWrite(id, [seats |-> n], "seats")

\* Sesion.write({'alumno_ids': [(cmd, a)]}) with the commands (4, id) link
\* and (3, id) unlink
Sesion_write_alumno_ids(id, cmd, a) ==
    /\ id \in DOMAIN sesiones
    /\ LET rel == IF cmd = 4 THEN alumno_sesion_rel \cup {<<a, id>>}
                  ELSE alumno_sesion_rel \ {<<a, id>>}
           errs == SesionErrors(sesiones, rel, id, {"alumno_ids"}, today)
       IN  /\ alumno_sesion_rel' = IF errs = {} THEN rel
                                   ELSE alumno_sesion_rel
           /\ last' = [op |-> "sesion.alumno_ids", id |-> id, errs |-> errs]
    /\ UNCHANGED <<sesiones, today, txs, academiaVars>>

\* Alumno.write({'sesion_ids': [(cmd, id)]}): academia.alumno has no
\* constraint on sesion_ids, and the constraints of academia.sesion are not
\* evaluated by a write on academia.alumno
Alumno_write_sesion_ids(a, cmd, id) ==
    /\ id \in DOMAIN sesiones
    /\ alumno_sesion_rel' = IF cmd = 4 THEN alumno_sesion_rel \cup {<<a, id>>}
                            ELSE alumno_sesion_rel \ {<<a, id>>}
    /\ last' = [op |-> "alumno.sesion_ids", id |-> id, errs |-> {}]
    /\ UNCHANGED <<sesiones, today, txs, academiaVars>>

SesionCreateVals ==
    [profesor_id : Profesores, date : Fechas, start_time : StartTimes,
     duration : Durations]

SesionWriteVals ==
    [{"profesor_id"} -> Profesores] \cup [{"date"} -> Fechas]
    \cup [{"start_time"} -> StartTimes] \cup [{"duration"} -> Durations]

\* the sessions created under SpecAsistencia
AsistenciaCreateVals == [profesor_id : Profesores, seats : SeatsVals]

SesionIds == 1..MaxSesiones

(***************************************************************************)
(* The database seen by the requests on students, classes, enrollments and *)
(* invoices, and the outcome of the steps of a request: the records        *)
(* reached and the rules violated (an exception was raised).               *)
(***************************************************************************)
DB ==
    [matriculas |-> matriculas, facturas |-> facturas, alumnos |-> alumnos,
     clases |-> clases, cursos |-> cursos,
     alumno_clase_rel |-> alumno_clase_rel, secuencia |-> secuencia]

Ok(db) == [db |-> db, errs |-> {}]

Raise(db, errs) == [db |-> db, errs |-> errs]

\* mutant: the writes made before the exception are kept
Transaction_sin_rollback(pre, r) == r.db

\* a request commits what its steps reached, or rolls back to the records it
\* started from when a step raised
Transaction(pre, r) == IF r.errs = {} THEN r.db ELSE pre

Commit(db) ==
    /\ matriculas' = db.matriculas
    /\ facturas' = db.facturas
    /\ alumnos' = db.alumnos
    /\ clases' = db.clases
    /\ cursos' = db.cursos
    /\ alumno_clase_rel' = db.alumno_clase_rel
    /\ secuencia' = db.secuencia

Request(op, id, r) ==
    /\ Commit(Transaction(DB, r))
    /\ last' = [op |-> op, id |-> id, errs |-> r.errs]
    /\ UNCHANGED <<sesionVars, today, txs>>

\* a request on the record set ids
RequestLote(op, ids, r) ==
    /\ Commit(Transaction(DB, r))
    /\ last' = [op |-> op, ids |-> ids, errs |-> r.errs]
    /\ UNCHANGED <<sesionVars, today, txs>>

(***************************************************************************)
(* academia.alumno and academia.clase: the roster is the many2many table   *)
(* academia_alumno_clase_rel, written from either side with the commands   *)
(* (4, id) link and (3, id) unlink.                                        *)
(***************************************************************************)
AlumnoStates == {"draft", "enrolled", "active", "suspended", "completed"}

Roster(db, k) == {a \in Alumnos : <<a, k>> \in db.alumno_clase_rel}

\* mutant: the command (6, 0, [a]) replaces the roster of k
Link_reemplaza(rel, a, k) == {p \in rel : p[2] # k} \cup {<<a, k>>}

Link(rel, a, k) == rel \cup {<<a, k>>}

Unlink(rel, a, k) == rel \ {<<a, k>>}

\* Alumno.write({'clase_ids': [(cmd, k)]}): academia.alumno has no
\* constraint on clase_ids, and the constraints of academia.clase are not
\* evaluated by a write on academia.alumno
AlumnoWriteClaseIds(db, a, cmd, k) ==
    Ok([db EXCEPT !.alumno_clase_rel =
            IF cmd = 4 THEN Link(@, a, k) ELSE Unlink(@, a, k)])

\* Alumno.write({'state': st})
AlumnoWriteState(db, a, st) == Ok([db EXCEPT !.alumnos[a].state = st])

\* len(clase.alumno_ids) > clase.max_students
Clase_check_capacidad(db, k) ==
    Cardinality(Roster(db, k)) > db.clases[k].max_students

\* mutant: the check runs on writes of the roster only
Clase_constrains_capacidad_solo_alumnos == {"alumno_ids"}

Clase_constrains_capacidad == {"alumno_ids", "max_students"}

\* CHECK(max_students > 0)
Clase_sql_max_students_positive(rec) == rec.max_students > 0

ClaseErrors(db, k, written) ==
    (IF /\ written \cap Clase_constrains_capacidad # {}
        /\ Clase_check_capacidad(db, k)
     THEN {"capacidad"} ELSE {})
    \cup
    (IF ~Clase_sql_max_students_positive(db.clases[k]) THEN {"sql"} ELSE {})

\* Clase.write({'alumno_ids': [(cmd, a)]})
ClaseWriteAlumnoIds(db, k, cmd, a) ==
    LET db1 == [db EXCEPT !.alumno_clase_rel =
                    IF cmd = 4 THEN Link(@, a, k) ELSE Unlink(@, a, k)]
    IN  Raise(db1, ClaseErrors(db1, k, {"alumno_ids"}))

\* Clase.write({'max_students': n})
ClaseWriteMaxStudents(db, k, n) ==
    LET db1 == [db EXCEPT !.clases[k].max_students = n]
    IN  Raise(db1, ClaseErrors(db1, k, {"max_students"}))

(***************************************************************************)
(* academia.facturacion                                                    *)
(***************************************************************************)
FacturaStates == {"draft", "pending", "paid", "overdue", "cancelled"}

Nuevo == <<"Nuevo">>

\* self.env['ir.sequence'].next_by_code('academia.facturacion') or 'Nuevo':
\* the next number when the sequence is configured, else the placeholder
Factura_next_name(db, seqOk) ==
    IF seqOk THEN <<"FAC", db.secuencia + 1>> ELSE Nuevo

\* an unset date is 0
FacturaDefaults(hoy) ==
    [name |-> Nuevo, date |-> hoy, due_date |-> 0, payment_date |-> 0,
     amount |-> 0, state |-> "draft", alumno_id |-> "a1", curso_id |-> "c1",
     is_overdue |-> FALSE, days_overdue |-> 0, active |-> TRUE]

\* today = date.today() when the method runs
Factura_compute_is_overdue(rec, hoy) ==
    IF rec.state = "pending" /\ rec.due_date # 0
    THEN IF rec.due_date < hoy
         THEN [rec EXCEPT !.is_overdue = TRUE,
                          !.days_overdue = hoy - rec.due_date]
         ELSE [rec EXCEPT !.is_overdue = FALSE, !.days_overdue = 0]
    ELSE [rec EXCEPT !.is_overdue = FALSE, !.days_overdue = 0]

\* @api.depends('due_date', 'state')
Factura_depends_is_overdue == {"due_date", "state"}

\* mutant: the table has no unique constraint on name
Factura_sql_name_unique_nunca(fs, id) == TRUE

\* UNIQUE(name)
Factura_sql_name_unique(fs, id) ==
    \A o \in DOMAIN fs : o # id => fs[o].name # fs[id].name

\* CHECK(amount >= 0)
Factura_sql_amount_positive(rec) == rec.amount >= 0

\* mutant: the dates are not compared
Factura_check_payment_date_nunca(rec) == FALSE

Factura_check_payment_date(rec) ==
    rec.payment_date # 0 /\ rec.payment_date < rec.date

FacturaErrors(fs, id) ==
    (IF ~Factura_sql_name_unique(fs, id) THEN {"name_unique"} ELSE {})
    \cup (IF ~Factura_sql_amount_positive(fs[id]) THEN {"sql"} ELSE {})
    \cup (IF Factura_check_payment_date(fs[id]) THEN {"payment_date"} ELSE {})

\* Facturacion.create(vals); the new record's id is Len(facturas)
FacturaCreate(db, vals, seqOk, hoy) ==
    LET rec == Factura_compute_is_overdue(
                   [Apply(FacturaDefaults(hoy), vals) EXCEPT
                       !.name = Factura_next_name(db, seqOk)], hoy)
        fs == Append(db.facturas, rec)
        db1 == [db EXCEPT !.facturas = fs,
                          !.secuencia = IF seqOk THEN @ + 1 ELSE @]
    IN  Raise(db1, FacturaErrors(fs, Len(fs)))

Factura_constrains_payment_date == {"payment_date", "date"}

\* Facturacion.write(vals) on one record
FacturaWrite(db, id, vals, hoy) ==
    LET written == DOMAIN vals
        r1 == Apply(db.facturas[id], vals)
        rec == IF written \cap Factura_depends_is_overdue # {}
               THEN Factura_compute_is_overdue(r1, hoy) ELSE r1
        fs == [db.facturas EXCEPT ![id] = rec]
    IN  Raise([db EXCEPT !.facturas = fs],
              (IF ~Factura_sql_name_unique(fs, id)
               THEN {"name_unique"} ELSE {})
              \cup (IF ~Factura_sql_amount_positive(rec)
                    THEN {"sql"} ELSE {})
              \cup (IF /\ written \cap Factura_constrains_payment_date # {}
                       /\ Factura_check_payment_date(rec)
                    THEN {"payment_date"} ELSE {}))

\* self.search([('state', '=', 'pending'), ('due_date', '<', today)]): the
\* model has an `active` field, so the search adds ('active', '=', True); an
\* unset due_date matches no comparison
Factura_search_overdue(fs, hoy) ==
    {id \in DOMAIN fs :
        /\ fs[id].active
        /\ fs[id].state = "pending"
        /\ fs[id].due_date # 0
        /\ fs[id].due_date < hoy}

\* Facturacion.write(vals) on the record set ids
FacturaWriteSet(db, ids, vals, hoy) ==
    LET written == DOMAIN vals
        fs == [id \in DOMAIN db.facturas |->
                  IF id \notin ids THEN db.facturas[id]
                  ELSE IF written \cap Factura_depends_is_overdue # {}
                       THEN Factura_compute_is_overdue(
                                Apply(db.facturas[id], vals), hoy)
                       ELSE Apply(db.facturas[id], vals)]
    IN  Raise([db EXCEPT !.facturas = fs],
              UNION {(IF ~Factura_sql_name_unique(fs, id)
                      THEN {"name_unique"} ELSE {})
                     \cup (IF ~Factura_sql_amount_positive(fs[id])
                           THEN {"sql"} ELSE {})
                     \cup (IF /\ written \cap
                                  Factura_constrains_payment_date # {}
                              /\ Factura_check_payment_date(fs[id])
                           THEN {"payment_date"} ELSE {}) : id \in ids})

\* the body of action_check_overdue
Factura_check_overdue(db, hoy) ==
    FacturaWriteSet(db, Factura_search_overdue(db.facturas, hoy),
                    [state |-> "overdue"], hoy)

\* Alumno._compute_facturacion: saldo_pendiente is not stored, it is
\* computed from the invoices when it is read
RECURSIVE Alumno_sum_pendientes(_, _, _)
Alumno_sum_pendientes(fs, a, n) ==
    IF n = 0 THEN 0
    ELSE Alumno_sum_pendientes(fs, a, n - 1)
         + (IF fs[n].alumno_id = a /\ fs[n].state = "pending"
            THEN fs[n].amount ELSE 0)

Alumno_compute_saldo_pendiente(fs, a) == Alumno_sum_pendientes(fs, a, Len(fs))

(***************************************************************************)
(* academia.matricula                                                      *)
(***************************************************************************)
MatriculaStates == {"draft", "confirmed", "paid", "cancelled"}

\* action_confirm, action_pay, action_cancel, action_draft
MatriculaOps == {"confirm", "pay", "cancel", "draft"}

NoClase == "none"

Matricula_compute_importe_curso(rec, cs) ==
    [rec EXCEPT !.importe_curso = cs[rec.curso_id].price]

\* mutant: the discount is not applied
Matricula_compute_importe_total_sin_descuento(rec) ==
    [rec EXCEPT !.importe_total = rec.importe_curso + rec.importe_matricula]

\* the amounts are whole euros and the inputs keep the discount exact
Matricula_compute_importe_total(rec) ==
    LET descuento_aplicado == (rec.importe_curso * rec.descuento) \div 100
    IN  [rec EXCEPT !.importe_total =
            (rec.importe_curso - descuento_aplicado) + rec.importe_matricula]

Matricula_compute_importe_pendiente(rec) ==
    [rec EXCEPT !.importe_pendiente = rec.importe_total - rec.importe_pagado]

\* the written fields and the stored computed fields they recompute
MatriculaTouched(written) ==
    LET t1 == written \cup (IF "curso_id" \in written
                            THEN {"importe_curso"} ELSE {})
        t2 == t1 \cup (IF t1 \cap {"importe_curso", "descuento",
                                   "importe_matricula"} # {}
                       THEN {"importe_total"} ELSE {})
    IN  t2 \cup (IF t2 \cap {"importe_total", "importe_pagado"} # {}
                 THEN {"importe_pendiente"} ELSE {})

MatriculaRecompute(rec, written, cs) ==
    LET t == MatriculaTouched(written)
        r1 == IF "importe_curso" \in t
              THEN Matricula_compute_importe_curso(rec, cs) ELSE rec
        r2 == IF "importe_total" \in t
              THEN Matricula_compute_importe_total(r1) ELSE r1
    IN  IF "importe_pendiente" \in t
        THEN Matricula_compute_importe_pendiente(r2) ELSE r2

Matricula_check_importe_pagado(rec) == rec.importe_pagado > rec.importe_total

\* mutant: the check runs on writes of importe_pagado only
Matricula_constrains_importe_pagado_solo == {"importe_pagado"}

Matricula_constrains_importe_pagado == {"importe_pagado", "importe_total"}

\* CHECK(descuento >= 0 AND descuento <= 100)
Matricula_sql_descuento_range(rec) ==
    rec.descuento >= 0 /\ rec.descuento <= 100

\* CHECK(importe_matricula >= 0)
Matricula_sql_importe_matricula_positive(rec) == rec.importe_matricula >= 0

\* mutant: cancelled enrollments do not count
Matricula_sql_unique_alumno_curso_activas(ms, id) ==
    \A o \in DOMAIN ms :
        (o # id /\ ms[o].state # "cancelled" /\ ms[id].state # "cancelled")
        => \/ ms[o].alumno_id # ms[id].alumno_id
           \/ ms[o].curso_id # ms[id].curso_id
           \/ ms[o].fecha_inicio # ms[id].fecha_inicio

\* UNIQUE(alumno_id, curso_id, fecha_inicio)
Matricula_sql_unique_alumno_curso(ms, id) ==
    \A o \in DOMAIN ms :
        o # id => \/ ms[o].alumno_id # ms[id].alumno_id
                  \/ ms[o].curso_id # ms[id].curso_id
                  \/ ms[o].fecha_inicio # ms[id].fecha_inicio

MatriculaErrors(ms, id, written) ==
    (IF /\ MatriculaTouched(written)
              \cap Matricula_constrains_importe_pagado # {}
        /\ Matricula_check_importe_pagado(ms[id])
     THEN {"importe_pagado"} ELSE {})
    \cup
    (IF /\ Matricula_sql_descuento_range(ms[id])
        /\ Matricula_sql_importe_matricula_positive(ms[id])
     THEN {} ELSE {"sql"})
    \cup
    (IF Matricula_sql_unique_alumno_curso(ms, id) THEN {} ELSE {"unique"})

MatriculaDefaults ==
    [alumno_id |-> "a1", curso_id |-> "c1", clase_id |-> NoClase,
     fecha_inicio |-> 1, descuento |-> 0, importe_matricula |-> 50,
     importe_curso |-> 0, importe_total |-> 0, importe_pagado |-> 0,
     importe_pendiente |-> 0, state |-> "draft", factura_id |-> 0]

\* Matricula.create(vals)
MatriculaCreateDb(db, vals) ==
    LET written == DOMAIN MatriculaDefaults
        rec == MatriculaRecompute(Apply(MatriculaDefaults, vals), written,
                                  db.cursos)
        ms == Append(db.matriculas, rec)
    IN  Raise([db EXCEPT !.matriculas = ms],
              MatriculaErrors(ms, Len(ms), written))

\* record.<field> = value: Matricula.write(vals) on one record
MatriculaWrite(db, id, vals) ==
    LET written == DOMAIN vals
        rec == MatriculaRecompute(Apply(db.matriculas[id], vals), written,
                                  db.cursos)
        ms == [db.matriculas EXCEPT ![id] = rec]
    IN  Raise([db EXCEPT !.matriculas = ms], MatriculaErrors(ms, id, written))

\* CHECK(price >= 0) and _check_price
Curso_sql_price_positive(rec) == rec.price >= 0

\* Curso.write({'price': p}): importe_curso of the enrollments of the course
\* depends on curso_id.price, so it and the amounts computed from it are
\* recomputed and validated in the same request
CursoWritePrice(db, c, p) ==
    LET cs == [db.cursos EXCEPT ![c].price = p]
        deps == {id \in DOMAIN db.matriculas : db.matriculas[id].curso_id = c}
        ms == [id \in DOMAIN db.matriculas |->
                  IF id \in deps
                  THEN MatriculaRecompute(db.matriculas[id],
                                          {"importe_curso"}, cs)
                  ELSE db.matriculas[id]]
    IN  Raise([db EXCEPT !.cursos = cs, !.matriculas = ms],
              (IF Curso_sql_price_positive(cs[c]) THEN {} ELSE {"sql"})
              \cup UNION {MatriculaErrors(ms, id, {"importe_curso"}) :
                             id \in deps})

\* mutant: the check of the draft state is missing
Matricula_confirm_illegal_nunca(record) == FALSE

\* mutant: a cancelled enrollment can be confirmed
Matricula_confirm_illegal_pagada(record) ==
    record.state \in {"confirmed", "paid"}

\* if record.state != 'draft': raise
Matricula_confirm_illegal(record) == record.state # "draft"

\* mutant: a paid enrollment can be paid again
Matricula_pay_illegal_pagada(record) ==
    record.state \notin {"confirmed", "paid"}

\* mutant: a draft enrollment can be paid
Matricula_pay_illegal_borrador(record) ==
    record.state \notin {"confirmed", "draft"}

\* if record.state != 'confirmed': raise
Matricula_pay_illegal(record) == record.state # "confirmed"

\* mutant: the check of the paid state is missing
Matricula_cancel_illegal_nunca(record) == FALSE

\* if record.state == 'paid': raise
Matricula_cancel_illegal(record) == record.state = "paid"

\* mutant: the check of the state is missing
Matricula_draft_illegal_nunca(record) == FALSE

\* mutant: only a draft enrollment is refused
Matricula_draft_illegal_borrador(record) == record.state = "draft"

\* if record.state not in ['confirmed', 'cancelled']: raise
Matricula_draft_illegal(record) ==
    record.state \notin {"confirmed", "cancelled"}

\* mutant: the invoice is for the course price, not for the total
Matricula_pay_factura_vals_curso(record) ==
    [alumno_id |-> record.alumno_id, curso_id |-> record.curso_id,
     amount |-> record.importe_curso, state |-> "paid"]

\* the values of the invoice that action_pay creates
Matricula_pay_factura_vals(record) ==
    [alumno_id |-> record.alumno_id, curso_id |-> record.curso_id,
     amount |-> record.importe_total, state |-> "paid"]

\* the body of the loop of action_confirm for one record
Matricula_confirm_record(db, id) ==
    LET record == db.matriculas[id] IN
    IF Matricula_confirm_illegal(record) THEN Raise(db, {"state"})
    ELSE LET r1 == IF record.clase_id # NoClase
                   THEN AlumnoWriteClaseIds(db, record.alumno_id, 4,
                                            record.clase_id)
                   ELSE Ok(db)
         IN  IF r1.errs # {} THEN r1
             ELSE MatriculaWrite(r1.db, id, [state |-> "confirmed"])

\* mutant: the student is set to enrolled whatever its state
Matricula_pay_promueve_siempre(alumno) == TRUE

\* if record.alumno_id.state == 'draft'
Matricula_pay_promueve(alumno) == alumno.state = "draft"

\* the body of the loop of action_pay for one record
Matricula_pay_record(db, id, seqOk, hoy) ==
    LET record == db.matriculas[id] IN
    IF Matricula_pay_illegal(record) THEN Raise(db, {"state"})
    ELSE LET r1 == MatriculaWrite(db, id,
                        [importe_pagado |-> record.importe_total])
             r2 == IF r1.errs # {} THEN r1
                   ELSE FacturaCreate(r1.db,
                            Matricula_pay_factura_vals(r1.db.matriculas[id]),
                            seqOk, hoy)
             r3 == IF r2.errs # {} THEN r2
                   ELSE MatriculaWrite(r2.db, id,
                            [factura_id |-> Len(r2.db.facturas)])
             r4 == IF r3.errs # {} THEN r3
                   ELSE IF Matricula_pay_promueve(
                               r3.db.alumnos[record.alumno_id])
                        THEN AlumnoWriteState(r3.db, record.alumno_id,
                                              "enrolled")
                        ELSE r3
         IN  IF r4.errs # {} THEN r4
             ELSE MatriculaWrite(r4.db, id, [state |-> "paid"])

\* mutant: cancelling also takes the student out of the class
Matricula_cancel_record_baja(db, id) ==
    IF Matricula_cancel_illegal(db.matriculas[id]) THEN Raise(db, {"state"})
    ELSE MatriculaWrite(
            [db EXCEPT !.alumno_clase_rel =
                Unlink(@, db.matriculas[id].alumno_id,
                       db.matriculas[id].clase_id)],
            id, [state |-> "cancelled"])

\* the body of the loop of action_cancel for one record
Matricula_cancel_record(db, id) ==
    IF Matricula_cancel_illegal(db.matriculas[id]) THEN Raise(db, {"state"})
    ELSE MatriculaWrite(db, id, [state |-> "cancelled"])

\* mutant: reverting to draft resets the amount paid
Matricula_draft_record_reinicia(db, id) ==
    IF Matricula_draft_illegal(db.matriculas[id]) THEN Raise(db, {"state"})
    ELSE MatriculaWrite(db, id, [state |-> "draft", importe_pagado |-> 0])

\* the body of the loop of action_draft for one record
Matricula_draft_record(db, id) ==
    IF Matricula_draft_illegal(db.matriculas[id]) THEN Raise(db, {"state"})
    ELSE MatriculaWrite(db, id, [state |-> "draft"])

\* the body of the loop of the action op for one record
Matricula_record(db, op, id, seqOk, hoy) ==
    CASE op = "confirm" -> Matricula_confirm_record(db, id)
      [] op = "pay" -> Matricula_pay_record(db, id, seqOk, hoy)
      [] op = "cancel" -> Matricula_cancel_record(db, id)
      [] op = "draft" -> Matricula_draft_record(db, id)

RECURSIVE Matricula_for_record(_, _, _, _, _)

\* mutant: a member on which the action is illegal is skipped
Matricula_for_rest_omite(db, r, op, ids, seqOk, hoy) ==
    Matricula_for_record(IF r.errs # {} THEN db ELSE r.db, op, ids, seqOk,
                         hoy)

\* the exception raised for a record leaves the loop; otherwise the loop
\* goes on with the rest of the record set
Matricula_for_rest(db, r, op, ids, seqOk, hoy) ==
    IF r.errs # {} THEN r
    ELSE Matricula_for_record(r.db, op, ids, seqOk, hoy)

\* for record in self: the records of the set are processed in order
Matricula_for_record(db, op, ids, seqOk, hoy) ==
    IF ids = <<>> THEN Ok(db)
    ELSE Matricula_for_rest(db,
            Matricula_record(db, op, Head(ids), seqOk, hoy),
            op, Tail(ids), seqOk, hoy)

(***************************************************************************)
(* The requests.                                                           *)
(***************************************************************************)
MatriculaCreate(vals) ==
    /\ Len(matriculas) < MaxMatriculas
    /\ Request("create", Len(matriculas) + 1, MatriculaCreateDb(DB, vals))

Matricula_action_confirm(id) ==
    /\ id \in DOMAIN matriculas
    /\ Request("confirm", id, Matricula_confirm_record(DB, id))

Matricula_action_pay(id, seqOk) ==
    /\ id \in DOMAIN matriculas
    /\ Request("pay", id, Matricula_pay_record(DB, id, seqOk, today))

Matricula_action_cancel(id) ==
    /\ id \in DOMAIN matriculas
    /\ Request("cancel", id, Matricula_cancel_record(DB, id))

Matricula_action_draft(id) ==
    /\ id \in DOMAIN matriculas
    /\ Request("draft", id, Matricula_draft_record(DB, id))

\* the text of the ValidationError of each action, word by word
Matricula_confirm_error ==
    <<"Solo", "se", "pueden", "confirmar", "matrículas", "en", "borrador",
      ".">>

\* mutant: the text of action_confirm was copied to action_pay
Matricula_pay_error_confirmar ==
    <<"Solo", "se", "pueden", "confirmar", "matrículas", "en", "borrador",
      ".">>

Matricula_pay_error ==
    <<"Solo", "se", "pueden", "pagar", "matrículas", "confirmadas", ".">>

Matricula_cancel_error ==
    <<"No", "se", "puede", "cancelar", "una", "matrícula", "ya", "pagada",
      ".", "Debe", "crear", "una", "nota", "de", "crédito", ".">>

Matricula_draft_error ==
    <<"Solo", "se", "pueden", "volver", "a", "borrador", "matrículas",
      "confirmadas", "o", "canceladas", ".">>

\* str(e) of the exception the action op raised, or nothing
Matricula_error(op, errs) ==
    IF "state" \notin errs THEN <<>>
    ELSE CASE op = "confirm" -> Matricula_confirm_error
           [] op = "pay" -> Matricula_pay_error
           [] op = "cancel" -> Matricula_cancel_error
           [] op = "draft" -> Matricula_draft_error

\* a request whose caller reads the text of the exception
RequestError(op, id, r) ==
    /\ Commit(Transaction(DB, r))
    /\ last' = [op |-> op, id |-> id, errs |-> r.errs,
                msg |-> Matricula_error(op, r.errs)]
    /\ UNCHANGED <<sesionVars, today, txs>>

\* action_confirm, action_pay, action_cancel or action_draft on one record
Matricula_action_error(op, id, seqOk) ==
    /\ id \in DOMAIN matriculas
    /\ RequestError(op, id, Matricula_record(DB, op, id, seqOk, today))

\* action_confirm, action_pay, action_cancel or action_draft called on the
\* record set ids
Matricula_action_lote(op, ids, seqOk) ==
    /\ \A i \in DOMAIN ids : ids[i] \in DOMAIN matriculas
    /\ RequestLote(op, ids, Matricula_for_record(DB, op, ids, seqOk, today))

\* Matricula.write(vals) from the form or the API
Matricula_write(id, vals, op) ==
    /\ id \in DOMAIN matriculas
    /\ Request(op, id, MatriculaWrite(DB, id, vals))

Curso_write_price(c, p) ==
    /\ c \in Cursos
    /\ Request("curso.price", c, CursoWritePrice(DB, c, p))

\* Facturacion.create(vals) from the form or the API; the sequence
\* academia.facturacion is configured
Factura_create(vals) ==
    /\ Len(facturas) < MaxFacturas
    /\ Request("factura.create", Len(facturas) + 1,
               FacturaCreate(DB, vals, TRUE, today))

\* Facturacion.create(vals) where the scheduled action is run
Factura_create_cobro(vals) ==
    /\ Len(facturas) < MaxCobros
    /\ Request("factura.create", Len(facturas) + 1,
               FacturaCreate(DB, vals, TRUE, today))

\* the scheduled action: Facturacion.action_check_overdue
Factura_action_check_overdue ==
    /\ last' = [op |-> "factura.check_overdue", id |-> 0,
                errs |-> Factura_check_overdue(DB, today).errs]
    /\ Commit(Transaction(DB, Factura_check_overdue(DB, today)))
    /\ UNCHANGED <<sesionVars, today, txs>>

\* archive / un-archive: write of the `active` field
Factura_toggle_active(id) ==
    /\ id \in DOMAIN facturas
    /\ Request("factura.active", id,
               FacturaWrite(DB, id, [active |-> ~facturas[id].active], today))

Factura_write(id, vals) ==
    /\ id \in DOMAIN facturas
    /\ Request("factura.write", id, FacturaWrite(DB, id, vals, today))

Factura_action_confirm(id) ==
    /\ id \in DOMAIN facturas
    /\ Request("factura.confirm", id,
               FacturaWrite(DB, id, [state |-> "pending"], today))

Factura_action_pay(id) ==
    /\ id \in DOMAIN facturas
    /\ Request("factura.pay", id,
               FacturaWrite(DB, id, [state |-> "paid",
                                     payment_date |-> today], today))

Factura_action_cancel(id) ==
    /\ id \in DOMAIN facturas
    /\ Request("factura.cancel", id,
               FacturaWrite(DB, id, [state |-> "cancelled"], today))

Factura_action_draft(id) ==
    /\ id \in DOMAIN facturas
    /\ Request("factura.draft", id,
               FacturaWrite(DB, id, [state |-> "draft",
                                     payment_date |-> 0], today))

\* Curso.create({'price': p}) of the course c
Curso_create(c, p) ==
    /\ c \in CursosNuevos \ DOMAIN cursos
    /\ LET rec == [price |-> p]
           errs == IF Curso_sql_price_positive(rec) THEN {} ELSE {"sql"}
       IN  /\ cursos' = IF errs = {}
                        THEN [x \in DOMAIN cursos \cup {c} |->
                                 IF x = c THEN rec ELSE cursos[x]]
                        ELSE cursos
           /\ last' = [op |-> "curso.create", curso |-> c, errs |-> errs]
    /\ UNCHANGED <<sesionVars, matriculas, facturas, alumnos, clases,
                   alumno_clase_rel, secuencia, today, txs>>

NoCurso == "none"

\* ondelete='restrict': a class or an enrollment of the course blocks the
\* DELETE
Curso_unlink_restrict(c) ==
    \/ \E k \in DOMAIN clases : clases[k].curso_id = c
    \/ \E m \in DOMAIN matriculas : matriculas[m].curso_id = c

\* mutant: the sessions of the course are kept
Curso_unlink_cascade_nada(ss, c) == ss

\* ondelete='cascade': the sessions of the course are deleted with it
Curso_unlink_cascade(ss, c) ==
    LET Queda(rec) == rec.curso_id # c IN SelectSeq(ss, Queda)

\* the position of the session id among the sessions that are kept
Curso_unlink_id(ss, c, id) ==
    Cardinality({j \in 1..id : ss[j].curso_id # c})

\* Curso.unlink(): the rows of the attendance table go with the sessions
\* deleted, and the invoices of the course keep no course (ondelete='set
\* null')
Curso_unlink(c) ==
    /\ c \in DOMAIN cursos
    /\ IF Curso_unlink_restrict(c)
       THEN /\ UNCHANGED <<sesiones, alumno_sesion_rel, cursos, facturas>>
            /\ last' = [op |-> "curso.unlink", curso |-> c,
                        errs |-> {"restrict"}, borradas |-> 0]
       ELSE /\ sesiones' = Curso_unlink_cascade(sesiones, c)
            /\ alumno_sesion_rel' =
                   {<<p[1], Curso_unlink_id(sesiones, c, p[2])>> :
                       p \in {q \in alumno_sesion_rel :
                                 sesiones[q[2]].curso_id # c}}
            /\ cursos' = [x \in DOMAIN cursos \ {c} |-> cursos[x]]
            /\ facturas' = [f \in DOMAIN facturas |->
                               IF facturas[f].curso_id = c
                               THEN [facturas[f] EXCEPT !.curso_id = NoCurso]
                               ELSE facturas[f]]
            /\ last' = [op |-> "curso.unlink", curso |-> c, errs |-> {},
                        borradas |-> Len(sesiones) - Len(sesiones')]
    /\ UNCHANGED <<matriculas, alumnos, clases, alumno_clase_rel, secuencia,
                   today, txs>>

\* the sessions created under SpecCurso
CursoSesionVals ==
    [curso_id : Cursos \cup CursosNuevos, profesor_id : Profesores,
     date : Fechas]

\* a request on the student a
RequestAlumno(op, a, r) ==
    /\ Commit(Transaction(DB, r))
    /\ last' = [op |-> op, alumno |-> a, errs |-> r.errs]
    /\ UNCHANGED <<sesionVars, today, txs>>

\* Alumno.action_enroll
Alumno_action_enroll(a) ==
    /\ a \in Alumnos
    /\ RequestAlumno("alumno.enroll", a, AlumnoWriteState(DB, a, "enrolled"))

\* Alumno.action_activate
Alumno_action_activate(a) ==
    /\ a \in Alumnos
    /\ RequestAlumno("alumno.activate", a, AlumnoWriteState(DB, a, "active"))

\* Alumno.write({'state': st}) from the form or the API
Alumno_write_state(a, st) ==
    /\ a \in Alumnos
    /\ RequestAlumno("alumno.state", a, AlumnoWriteState(DB, a, st))

\* the clock: a day passes and no record is written
Tick ==
    /\ \E d \in Fechas : d > today
    /\ today' = today + 1
    /\ last' = [op |-> "tick", id |-> 0, errs |-> {}]
    /\ UNCHANGED <<sesionVars, academiaVars, txs>>

FacturaIds == 1..MaxFacturas

\* the invoices created and the values written under SpecFactura
FacturaVals ==
    [date : Fechas, due_date : {0} \cup Fechas, amount : {-1, 100}]

\* the invoices created under SpecPago and SpecVencida
CobroVals ==
    [due_date : {0} \cup Fechas, alumno_id : Alumnos, amount : {100}]

CobroIds == 1..MaxCobros

FacturaWriteVals ==
    [{"date"} -> Fechas] \cup [{"due_date"} -> {0} \cup Fechas]
    \cup [{"amount"} -> {-1, 100}]

Clase_write_alumno_ids(k, cmd, a) ==
    /\ k \in Clases
    /\ Request("clase.alumno_ids", k, ClaseWriteAlumnoIds(DB, k, cmd, a))

Clase_write_max_students(k, n) ==
    /\ k \in Clases
    /\ Request("clase.max_students", k, ClaseWriteMaxStudents(DB, k, n))

Alumno_write_clase_ids(a, cmd, k) ==
    /\ a \in Alumnos
    /\ Request("alumno.clase_ids", a, AlumnoWriteClaseIds(DB, a, cmd, k))

MatriculaIds == 1..MaxMatriculas

\* the record sets of several enrollments, in each order
MatriculaLotes ==
    {ids \in UNION {[1..n -> MatriculaIds] : n \in 2..MaxMatriculas} :
        \A i \in DOMAIN ids, j \in DOMAIN ids : i # j => ids[i] # ids[j]}

\* the enrollments created under SpecMatricula and under SpecClase
MatriculaVals ==
    [alumno_id : Alumnos, fecha_inicio : FechasInicio,
     descuento : Descuentos]

\* the enrollments created and the keys written under SpecUnica
UnicaVals == [alumno_id : Alumnos, fecha_inicio : FechasInicio]

UnicaWriteVals ==
    [{"alumno_id"} -> Alumnos] \cup [{"fecha_inicio"} -> FechasInicio]

\* the enrollments created and the amounts written under SpecImportes
MatriculaAlumnoVals == [alumno_id : Alumnos]

ImportesMatricula == {0, 50}
ImportesPagados == {0, 500}
Prices == {400, 500}

MatriculaClaseVals ==
    [alumno_id : Alumnos, clase_id : Clases \cup {NoClase}]

(***************************************************************************)
(* Concurrent requests.  Each request runs in its own transaction at the    *)
(* isolation level REPEATABLE READ: it reads the rows committed when it     *)
(* began and its own writes; an UPDATE takes the lock of the row, waits for *)
(* the transaction that holds it, and fails with a serialization error,     *)
(* after which the request is run again, when the row was changed by a      *)
(* transaction committed since the request began; an INSERT locks no        *)
(* existing row.                                                            *)
(***************************************************************************)
TxIdle == [pc |-> "idle", op |-> "none", id |-> 0, vals |-> <<>>,
           snap |-> <<>>]

\* the sessions created by the concurrent requests
ConcurrenteCreateVals == [start_time : StartTimes]

\* Sesion.create(vals) begins: the rows of academia.sesion it will read
TxBeginCreate(t, vals) ==
    /\ txs[t].pc = "idle"
    /\ Len(sesiones)
         + Cardinality({u \in Transacciones : txs[u].op = "create"})
         < MaxSesiones
    /\ txs' = [txs EXCEPT ![t] = [pc |-> "open", op |-> "create", id |-> 0,
                                  vals |-> vals, snap |-> sesiones]]
    /\ UNCHANGED <<sesionVars, academiaVars, today, last>>

\* Sesion.create(vals) inserts its row, evaluates the constraints on the rows
\* it reads (self.search sees no row of a transaction still open) and commits
TxCommitCreate(t) ==
    /\ txs[t].pc = "open"
    /\ txs[t].op = "create"
    /\ LET written == DOMAIN SesionDefaults
           rec == SesionRecompute(Apply(SesionDefaults, txs[t].vals), written)
           ss == Append(txs[t].snap, rec)
           errs == SesionErrors(ss, alumno_sesion_rel, Len(ss), written,
                                today)
       IN  /\ sesiones' = IF errs = {} THEN Append(sesiones, rec)
                          ELSE sesiones
           /\ last' = [op |-> "tx.create", id |-> Len(sesiones) + 1,
                       errs |-> errs]
    /\ txs' = [txs EXCEPT ![t] = TxIdle]
    /\ UNCHANGED <<alumno_sesion_rel, academiaVars, today>>

\* action_pay on enrollment id begins: the rows it will read
TxBeginPay(t, id) ==
    /\ txs[t].pc = "idle"
    /\ id \in DOMAIN matriculas
    /\ txs' = [txs EXCEPT ![t] = [pc |-> "open", op |-> "pay", id |-> id,
                                  vals |-> <<>>, snap |-> matriculas]]
    /\ UNCHANGED <<sesionVars, academiaVars, today, last>>

\* the state check on the row read, then the first write of the record
\* (record.importe_pagado = ...), an UPDATE of the row of the enrollment
TxPayUpdate(t) ==
    /\ txs[t].pc = "open"
    /\ txs[t].op = "pay"
    /\ LET id == txs[t].id IN
       IF Matricula_pay_illegal(txs[t].snap[id])
       THEN /\ txs' = [txs EXCEPT ![t] = TxIdle]
            /\ last' = [op |-> "tx.pay", id |-> id, errs |-> {"state"}]
       ELSE IF matriculas[id] # txs[t].snap[id]
       THEN \* serialization error: the request is run again
            /\ txs' = [txs EXCEPT ![t].snap = matriculas]
            /\ UNCHANGED last
       ELSE \* the row lock, when no other transaction holds it
            /\ \A u \in Transacciones \ {t} :
                  ~(txs[u].pc = "locked" /\ txs[u].id = id)
            /\ txs' = [txs EXCEPT ![t].pc = "locked"]
            /\ UNCHANGED last
    /\ UNCHANGED <<sesionVars, academiaVars, today>>

\* the rest of action_pay and the commit, or the rollback when a step
\* raised; the sequence academia.facturacion is configured
TxCommit(t, op, r) ==
    /\ Commit(Transaction(DB, r))
    /\ last' = [op |-> op, id |-> txs[t].id, errs |-> r.errs]
    /\ txs' = [txs EXCEPT ![t] = TxIdle]
    /\ UNCHANGED <<sesionVars, today>>

TxCommitPay(t) ==
    /\ txs[t].pc = "locked"
    /\ TxCommit(t, "tx.pay", Matricula_pay_record(DB, txs[t].id, TRUE, today))

\* the requests that prepare the enrollments run alone
TxNone == \A t \in Transacciones : txs[t].pc = "idle"

Init ==
    /\ sesiones = <<>>
    /\ matriculas = <<>>
    /\ facturas = <<>>
    /\ alumnos = [a \in Alumnos |-> [state |-> "draft"]]
    /\ clases = [k \in Clases |-> [max_students |-> 1, curso_id |-> "c1"]]
    /\ cursos = [c \in Cursos |-> [price |-> 500]]
    /\ alumno_clase_rel = {}
    /\ alumno_sesion_rel = {}
    /\ secuencia = 0
    /\ today = Hoy
    /\ txs = [t \in Transacciones |-> TxIdle]
    /\ last = [op |-> "init", id |-> 0, errs |-> {}]

NextSesion ==
    \/ \E vals \in SesionCreateVals : SesionCreate(vals)
    \/ \E id \in SesionIds, vals \in SesionWriteVals :
          SesionWrite(id, vals, "write")
    \/ \E id \in SesionIds : Sesion_action_confirm(id)
    \/ \E id \in SesionIds : Sesion_action_done(id)
    \/ \E id \in SesionIds : Sesion_action_cancel(id)
    \/ \E id \in SesionIds : Sesion_action_draft(id)
    \/ \E id \in SesionIds : Sesion_toggle_active(id)

SpecSesion == Init /\ [][NextSesion]_vars

\* the attendance of the sessions
NextAsistencia ==
    \/ \E vals \in AsistenciaCreateVals : SesionCreate(vals)
    \/ \E id \in SesionIds, n \in SeatsVals : Sesion_write_seats(id, n)
    \/ \E id \in SesionIds, cmd \in {3, 4}, a \in Alumnos :
          Sesion_write_alumno_ids(id, cmd, a)
    \/ \E a \in Alumnos, cmd \in {3, 4}, id \in SesionIds :
          Alumno_write_sesion_ids(a, cmd, id)

SpecAsistencia == Init /\ [][NextAsistencia]_vars

\* the enrollment workflow and the invoices it generates
NextMatricula ==
    \/ \E vals \in MatriculaVals : MatriculaCreate(vals)
    \/ \E id \in MatriculaIds : Matricula_action_confirm(id)
    \/ \E id \in MatriculaIds, seqOk \in BOOLEAN :
          Matricula_action_pay(id, seqOk)
    \/ \E id \in MatriculaIds : Matricula_action_cancel(id)
    \/ \E id \in MatriculaIds : Matricula_action_draft(id)

SpecMatricula == Init /\ [][NextMatricula]_vars

\* the class rosters: enrollments linked to a class and direct writes
NextClase ==
    \/ \E vals \in MatriculaClaseVals : MatriculaCreate(vals)
    \/ \E id \in MatriculaIds : Matricula_action_confirm(id)
    \/ \E id \in MatriculaIds : Matricula_action_cancel(id)
    \/ \E id \in MatriculaIds : Matricula_action_draft(id)
    \/ \E k \in Clases, cmd \in {3, 4}, a \in Alumnos :
          Clase_write_alumno_ids(k, cmd, a)
    \/ \E k \in Clases, n \in MaxStudentsVals :
          Clase_write_max_students(k, n)
    \/ \E a \in Alumnos, cmd \in {3, 4}, k \in Clases :
          Alumno_write_clase_ids(a, cmd, k)

SpecClase == Init /\ [][NextClase]_vars

\* the whole workflow on enrollments linked to a class
NextInscripcion ==
    \/ \E vals \in MatriculaClaseVals : MatriculaCreate(vals)
    \/ \E id \in MatriculaIds : Matricula_action_confirm(id)
    \/ \E id \in MatriculaIds, seqOk \in BOOLEAN :
          Matricula_action_pay(id, seqOk)
    \/ \E id \in MatriculaIds : Matricula_action_cancel(id)
    \/ \E id \in MatriculaIds : Matricula_action_draft(id)
    \/ \E id \in MatriculaIds, n \in ImportesPagados :
          Matricula_write(id, [importe_pagado |-> n], "write.importe_pagado")

SpecInscripcion == Init /\ [][NextInscripcion]_vars

\* the actions on one enrollment and on record sets of several
NextLote ==
    \/ \E vals \in MatriculaClaseVals : MatriculaCreate(vals)
    \/ \E op \in MatriculaOps, id \in MatriculaIds, seqOk \in BOOLEAN :
          Matricula_action_lote(op, <<id>>, seqOk)
    \/ \E op \in MatriculaOps, ids \in MatriculaLotes, seqOk \in BOOLEAN :
          Matricula_action_lote(op, ids, seqOk)

SpecLote == Init /\ [][NextLote]_vars

\* concurrent creations of sessions and concurrent payments
NextConcurrente ==
    \/ \E vals \in MatriculaAlumnoVals : TxNone /\ MatriculaCreate(vals)
    \/ \E id \in MatriculaIds : TxNone /\ Matricula_action_confirm(id)
    \/ \E t \in Transacciones, vals \in ConcurrenteCreateVals :
          TxBeginCreate(t, vals)
    \/ \E t \in Transacciones : TxCommitCreate(t)
    \/ \E t \in Transacciones, id \in MatriculaIds : TxBeginPay(t, id)
    \/ \E t \in Transacciones : TxPayUpdate(t)
    \/ \E t \in Transacciones : TxCommitPay(t)

SpecConcurrente == Init /\ [][NextConcurrente]_vars

\* the key (student, course, start date) of the enrollments
NextUnica ==
    \/ \E vals \in UnicaVals : MatriculaCreate(vals)
    \/ \E id \in MatriculaIds, vals \in UnicaWriteVals :
          Matricula_write(id, vals, "write.clave")
    \/ \E id \in MatriculaIds : Matricula_action_confirm(id)
    \/ \E id \in MatriculaIds : Matricula_action_cancel(id)
    \/ \E id \in MatriculaIds : Matricula_action_draft(id)

SpecUnica == Init /\ [][NextUnica]_vars

\* the statistics and the color of a session
NextColor ==
    \E st \in SesionStates, seats \in 0..MaxSeats, n \in 0..MaxSeats :
        Sesion_compute(st, seats, n)

SpecColor == Init /\ [][NextColor]_vars

\* the invoices and the clock
NextFactura ==
    \/ \E vals \in FacturaVals : Factura_create(vals)
    \/ \E id \in FacturaIds, vals \in FacturaWriteVals :
          Factura_write(id, vals)
    \/ \E id \in FacturaIds : Factura_action_confirm(id)
    \/ \E id \in FacturaIds : Factura_action_pay(id)
    \/ \E id \in FacturaIds : Factura_action_cancel(id)
    \/ \E id \in FacturaIds : Factura_action_draft(id)
    \/ Tick

SpecFactura == Init /\ [][NextFactura]_vars

\* the amounts of the enrollments and the price of the course
NextPago ==
    \/ \E vals \in CobroVals : Factura_create(vals)
    \/ \E id \in FacturaIds : Factura_action_confirm(id)
    \/ \E id \in FacturaIds : Factura_action_pay(id)
    \/ \E id \in FacturaIds : Factura_action_cancel(id)
    \/ \E id \in FacturaIds : Factura_action_draft(id)
    \/ Factura_action_check_overdue
    \/ Tick
    \/ \E vals \in MatriculaAlumnoVals : MatriculaCreate(vals)
    \/ \E id \in MatriculaIds : Matricula_action_confirm(id)
    \/ \E id \in MatriculaIds : Matricula_action_pay(id, TRUE)

SpecPago == Init /\ [][NextPago]_vars

NextVencida ==
    \/ \E vals \in CobroVals : Factura_create_cobro(vals)
    \/ \E id \in CobroIds : Factura_action_confirm(id)
    \/ \E id \in CobroIds : Factura_toggle_active(id)
    \/ Factura_action_check_overdue
    \/ Tick

SpecVencida == Init /\ [][NextVencida]_vars

NextAlumno ==
    \/ \E vals \in MatriculaAlumnoVals : MatriculaCreate(vals)
    \/ \E id \in MatriculaIds : Matricula_action_confirm(id)
    \/ \E id \in MatriculaIds, seqOk \in BOOLEAN :
          Matricula_action_pay(id, seqOk)
    \/ \E id \in MatriculaIds : Matricula_action_cancel(id)
    \/ \E id \in MatriculaIds : Matricula_action_draft(id)
    \/ \E a \in Alumnos : Alumno_action_enroll(a)
    \/ \E a \in Alumnos : Alumno_action_activate(a)
    \/ \E a \in Alumnos, st \in AlumnoStates : Alumno_write_state(a, st)

SpecAlumno == Init /\ [][NextAlumno]_vars

NextPagada ==
    \/ \E vals \in MatriculaAlumnoVals : MatriculaCreate(vals)
    \/ \E id \in MatriculaIds : Matricula_action_confirm(id)
    \/ \E id \in MatriculaIds : Matricula_action_pay(id, TRUE)
    \/ \E id \in MatriculaIds, d \in Descuentos :
          Matricula_write(id, [descuento |-> d], "write.descuento")
    \/ \E id \in MatriculaIds, n \in ImportesMatricula :
          Matricula_write(id, [importe_matricula |-> n],
                          "write.importe_matricula")
    \/ \E c \in Cursos, p \in Prices : Curso_write_price(c, p)

SpecPagada == Init /\ [][NextPagada]_vars

NextError ==
    \/ \E vals \in MatriculaAlumnoVals : MatriculaCreate(vals)
    \/ \E id \in MatriculaIds : Matricula_action_error("confirm", id, TRUE)
    \/ \E id \in MatriculaIds, seqOk \in BOOLEAN :
          Matricula_action_error("pay", id, seqOk)
    \/ \E id \in MatriculaIds : Matricula_action_error("cancel", id, TRUE)
    \/ \E id \in MatriculaIds : Matricula_action_error("draft", id, TRUE)

SpecError == Init /\ [][NextError]_vars

NextCurso ==
    \/ \E c \in CursosNuevos, p \in Prices : Curso_create(c, p)
    \/ \E c \in Cursos \cup CursosNuevos : Curso_unlink(c)
    \/ \E vals \in CursoSesionVals : SesionCreate(vals)
    \/ \E id \in SesionIds : Sesion_action_confirm(id)
    \/ \E id \in SesionIds, a \in Alumnos : Alumno_write_sesion_ids(a, 4, id)

SpecCurso == Init /\ [][NextCurso]_vars

NextImportes ==
    \/ \E vals \in MatriculaAlumnoVals : MatriculaCreate(vals)
    \/ \E id \in MatriculaIds : Matricula_action_confirm(id)
    \/ \E id \in MatriculaIds : Matricula_action_pay(id, TRUE)
    \/ \E id \in MatriculaIds, d \in Descuentos :
          Matricula_write(id, [descuento |-> d], "write.descuento")
    \/ \E id \in MatriculaIds, n \in ImportesMatricula :
          Matricula_write(id, [importe_matricula |-> n],
                          "write.importe_matricula")
    \/ \E id \in MatriculaIds, n \in ImportesPagados :
          Matricula_write(id, [importe_pagado |-> n], "write.importe_pagado")
    \/ \E c \in Cursos, p \in Prices : Curso_write_price(c, p)

SpecImportes == Init /\ [][NextImportes]_vars

(***************************************************************************)
(* Claims on the session schedule.                                         *)
(***************************************************************************)
\* the candidate record of a write of vals on session id
SesionCandidate(id, vals) ==
    SesionRecompute(Apply(sesiones[id], vals), DOMAIN vals)

\* another session with the same teacher and date, not cancelled, whose
\* interval intersects [start_time, end_time) of rec
HayConflicto(rec, id) ==
    \E c \in DOMAIN sesiones :
        /\ c # id
        /\ sesiones[c].profesor_id = rec.profesor_id
        /\ sesiones[c].date = rec.date
        /\ sesiones[c].state # "cancelled"
        /\ rec.start_time < sesiones[c].end_time
        /\ rec.end_time > sesiones[c].start_time

\* C1: in every reachable state no two sessions of the same teacher and date
\* that are both not cancelled overlap (checked here on the sessions that are
\* not archived, which the claim includes).
C1_SinSolapamiento ==
    \A a \in DOMAIN sesiones, b \in DOMAIN sesiones :
        (/\ a # b
         /\ sesiones[a].active /\ sesiones[b].active
         /\ sesiones[a].profesor_id = sesiones[b].profesor_id
         /\ sesiones[a].date = sesiones[b].date
         /\ sesiones[a].state # "cancelled"
         /\ sesiones[b].state # "cancelled")
        => ~Solapa(sesiones[a], sesiones[b])

\* C2: a create or a write of teacher, date, start_time or duration that no
\* other rule rejects (duration > 0, no future date on a done session) is
\* rejected if and only if another session of the same teacher and date that
\* is not cancelled intersects the written session's half-open interval.
C2_RechazoSiSolapa ==
    [][/\ \A id \in SesionIds, vals \in SesionWriteVals :
            (/\ SesionWrite(id, vals, "write")
             /\ SesionCandidate(id, vals).duration > 0
             /\ last'.errs \subseteq {"overlap"})
            => ((last'.errs # {}) <=> HayConflicto(SesionCandidate(id, vals), id))
       /\ \A vals \in SesionCreateVals :
            (/\ SesionCreate(vals)
             /\ vals.duration > 0
             /\ last'.errs \subseteq {"overlap"})
            => ((last'.errs # {}) <=>
                    HayConflicto(SesionRecompute(Apply(SesionDefaults, vals),
                                                 DOMAIN SesionDefaults),
                                 Len(sesiones) + 1))
      ]_vars

\* C34: a write of teacher, date, start_time or duration on a session that
\* is itself cancelled is rejected, and changes nothing, when the interval
\* written intersects a session of the same teacher and date that is not
\* cancelled.
C34_CanceladaTambien ==
    [][\A id \in SesionIds, vals \in SesionWriteVals :
          (/\ last'.op = "write"
           /\ SesionWrite(id, vals, "write")
           /\ sesiones[id].state = "cancelled"
           /\ HayConflicto(SesionCandidate(id, vals), id))
          => /\ last'.errs # {}
             /\ UNCHANGED sesiones]_vars

(***************************************************************************)
(* Claims on the class rosters and on the enrollment workflow.             *)
(***************************************************************************)
\* C3: in every reachable state the roster of every class has at most
\* max_students students.
C3_CapacidadClase ==
    \A k \in Clases : Cardinality(Roster(DB, k)) <= clases[k].max_students

\* C4: a successful action_pay on a confirmed enrollment leaves importe_pagado
\* = importe_total and the state paid, and adds exactly one invoice, of the
\* enrollment's student, of amount importe_total and state paid, linked as
\* factura_id; with importe_curso 500, descuento 10 and importe_matricula 50
\* the amount is 500.
C4_PagoGeneraFactura ==
    [][(/\ last'.op = "pay"
        /\ last'.errs = {}
        /\ matriculas[last'.id].state = "confirmed")
       => LET m == matriculas'[last'.id]
              f == facturas'[Len(facturas')]
          IN  /\ m.importe_pagado = m.importe_total
              /\ m.state = "paid"
              /\ Len(facturas') = Len(facturas) + 1
              /\ SubSeq(facturas', 1, Len(facturas)) = facturas
              /\ m.factura_id = Len(facturas')
              /\ f.alumno_id = m.alumno_id
              /\ f.amount = m.importe_total
              /\ f.state = "paid"
              /\ (/\ m.importe_curso = 500
                  /\ m.descuento = 10
                  /\ m.importe_matricula = 50) => f.amount = 500
      ]_vars

C4_Witness ==
    /\ last.op = "pay"
    /\ last.errs = {}
    /\ matriculas[last.id].importe_curso = 500
    /\ matriculas[last.id].descuento = 10
    /\ matriculas[last.id].importe_matricula = 50
    /\ matriculas[last.id].state = "paid"
    /\ facturas[matriculas[last.id].factura_id].amount = 500

\* C5: action_pay on an enrollment that is draft, paid or cancelled fails and
\* changes no enrollment, no invoice and no student.
C5_PagoIlegal ==
    [][(/\ last'.op = "pay"
        /\ matriculas[last'.id].state # "confirmed")
       => /\ last'.errs # {}
          /\ UNCHANGED <<matriculas, facturas, alumnos>>
      ]_vars

C5_Witness ==
    /\ last.op = "pay"
    /\ last.errs = {"state"}
    /\ matriculas[last.id].state = "draft"
    /\ matriculas[last.id].importe_pagado = 0
    /\ matriculas[last.id].factura_id = 0

\* C6: action_cancel on a paid enrollment fails and the state stays paid;
\* from draft, confirmed or cancelled it succeeds and the state is cancelled.
C6_Cancelar ==
    [][last'.op = "cancel"
       => IF matriculas[last'.id].state = "paid"
          THEN /\ last'.errs # {}
               /\ matriculas'[last'.id].state = "paid"
          ELSE /\ last'.errs = {}
               /\ matriculas'[last'.id].state = "cancelled"
      ]_vars

C6_Witness ==
    /\ last.op = "cancel"
    /\ last.errs = {"state"}
    /\ matriculas[last.id].state = "paid"

\* C7: once an enrollment is paid its state never changes, and each of the
\* four actions on it is rejected.
C7_PagadaTerminal ==
    [][\A id \in DOMAIN matriculas :
          matriculas[id].state = "paid"
          => /\ matriculas'[id].state = "paid"
             /\ (last'.op \in MatriculaOps /\ last'.id = id)
                    => last'.errs # {}
      ]_vars

C7_Witness ==
    /\ last.op = "draft"
    /\ last.errs = {"state"}
    /\ matriculas[last.id].state = "paid"

\* C8: the four actions change the state only by draft -> confirmed (confirm),
\* confirmed -> paid (pay), draft or confirmed -> cancelled (cancel),
\* confirmed or cancelled -> draft (revert); a new enrollment is draft.
TransicionesMatricula ==
    {<<"confirm", "draft", "confirmed">>, <<"pay", "confirmed", "paid">>,
     <<"cancel", "draft", "cancelled">>, <<"cancel", "confirmed", "cancelled">>,
     <<"draft", "confirmed", "draft">>, <<"draft", "cancelled", "draft">>}

C8_Transiciones ==
    [][/\ \A id \in DOMAIN matriculas :
            matriculas'[id].state # matriculas[id].state
            => /\ last'.id = id
               /\ <<last'.op, matriculas[id].state, matriculas'[id].state>>
                      \in TransicionesMatricula
       /\ Len(matriculas') > Len(matriculas)
            => matriculas'[Len(matriculas')].state = "draft"
      ]_vars

C8_Witness ==
    /\ last.op = "draft"
    /\ last.errs = {}
    /\ matriculas[last.id].state = "draft"
    /\ Len(matriculas) = MaxMatriculas

\* C9: action_confirm on a draft enrollment sets the state confirmed and adds
\* the student to the roster of the linked class as a set union (nothing
\* changes when the student is already in it); without a class no roster
\* changes.
C9_ConfirmarInscribe ==
    [][(/\ last'.op = "confirm"
        /\ matriculas[last'.id].state = "draft")
       => LET m == matriculas[last'.id] IN
          /\ last'.errs = {}
          /\ matriculas'[last'.id].state = "confirmed"
          /\ alumno_clase_rel' =
                IF m.clase_id = NoClase THEN alumno_clase_rel
                ELSE alumno_clase_rel \cup {<<m.alumno_id, m.clase_id>>}
          /\ <<m.alumno_id, m.clase_id>> \in alumno_clase_rel
                => alumno_clase_rel' = alumno_clase_rel
      ]_vars

C9_Witness ==
    /\ last.op = "confirm"
    /\ last.errs = {}
    /\ matriculas[last.id].clase_id = "k1"
    /\ matriculas[last.id].state = "confirmed"
    /\ Roster(DB, "k1") = Alumnos

\* C10: when a step of action_pay fails after the state check, importe_pagado,
\* factura_id, the states of the enrollment and of the student and the
\* invoices are as before the call.
C10_PagoAtomico ==
    [][(/\ last'.op = "pay"
        /\ matriculas[last'.id].state = "confirmed"
        /\ last'.errs # {})
       => UNCHANGED <<matriculas, facturas, alumnos>>
      ]_vars

C10_Witness ==
    /\ last.op = "pay"
    /\ last.errs = {"name_unique"}
    /\ matriculas[last.id].state = "confirmed"
    /\ matriculas[last.id].importe_pagado = 0
    /\ matriculas[last.id].factura_id = 0

\* C11: action_confirm on an enrollment that is not draft, and action_draft on
\* an enrollment that is draft or paid, fail and change no enrollment (state,
\* importe_pagado, factura_id), no roster, no invoice and no student.
C11_TransicionIlegal ==
    [][(\/ /\ last'.op = "confirm"
           /\ matriculas[last'.id].state # "draft"
        \/ /\ last'.op = "draft"
           /\ matriculas[last'.id].state \in {"draft", "paid"})
       => /\ last'.errs # {}
          /\ UNCHANGED <<matriculas, alumno_clase_rel, facturas, alumnos>>
      ]_vars

C11_Witness ==
    /\ last.op = "confirm"
    /\ last.errs = {"state"}
    /\ matriculas[last.id].state = "cancelled"
    /\ matriculas[last.id].clase_id = "k1"
    /\ <<matriculas[last.id].alumno_id, "k1">> \notin alumno_clase_rel

\* C12: in every reachable state no session in state done has a date later
\* than today.
C12_HechaNoFutura ==
    \A id \in DOMAIN sesiones :
        sesiones[id].state = "done" => sesiones[id].date <= today

\* C13: in every reachable state every session has at most `seats` attendees.
C13_AforoSesion ==
    \A id \in DOMAIN sesiones :
        Cardinality(Asistentes(alumno_sesion_rel, id)) <= sesiones[id].seats

(***************************************************************************)
(* Claims on the amounts of the enrollments.                               *)
(***************************************************************************)
\* importe_curso * (1 - descuento / 100) + importe_matricula for the record
\* rec and the course prices cs
TotalEsperado(rec, cs) ==
    (cs[rec.curso_id].price * (100 - rec.descuento)) \div 100
        + rec.importe_matricula

\* C14: after every step importe_pagado <= importe_total for every
\* enrollment, and a write of descuento, importe_matricula or importe_pagado
\* on an enrollment, or of the price of a course, after which the amount paid
\* of an enrollment would exceed its total, is rejected and changes nothing.
C14_PagadoNoSuperaTotal ==
    [][/\ \A id \in DOMAIN matriculas' :
            matriculas'[id].importe_pagado <= matriculas'[id].importe_total
       /\ \A id \in DOMAIN matriculas :
            (/\ last'.op \in {"write.descuento", "write.importe_matricula",
                               "write.importe_pagado"}
             /\ last'.id = id
             /\ last'.errs = {})
            => matriculas'[id].importe_pagado
                   <= TotalEsperado(matriculas'[id], cursos')
       /\ \A c \in Cursos, p \in Prices :
            (/\ last'.op = "curso.price"
             /\ Curso_write_price(c, p)
             /\ \E id \in DOMAIN matriculas :
                   /\ matriculas[id].curso_id = c
                   /\ matriculas[id].importe_pagado >
                          TotalEsperado(matriculas[id],
                                        [cursos EXCEPT ![c].price = p]))
            => /\ last'.errs # {}
               /\ UNCHANGED <<matriculas, cursos>>
      ]_vars

C14_Witness ==
    /\ last.op = "curso.price"
    /\ last.errs = {"importe_pagado"}
    /\ \E id \in DOMAIN matriculas :
          /\ matriculas[id].state = "paid"
          /\ matriculas[id].importe_pagado = matriculas[id].importe_total
          /\ matriculas[id].importe_pagado = 550

\* C15: in every reachable state every enrollment has importe_curso = the
\* current price of its course, importe_total = importe_curso * (1 -
\* descuento / 100) + importe_matricula and importe_pendiente = importe_total
\* - importe_pagado, and recomputing the three amounts changes nothing.
C15_ImportesCalculados ==
    \A id \in DOMAIN matriculas :
        LET m == matriculas[id] IN
        /\ m.importe_curso = cursos[m.curso_id].price
        /\ m.importe_total = TotalEsperado(m, cursos)
        /\ m.importe_pendiente = m.importe_total - m.importe_pagado
        /\ MatriculaRecompute(m, {"curso_id"}, cursos) = m

C15_Witness ==
    \E id \in DOMAIN matriculas :
        /\ matriculas[id].descuento = 10
        /\ cursos[matriculas[id].curso_id].price = 400
        /\ matriculas[id].importe_total = 410
        /\ matriculas[id].importe_pagado = 410
        /\ matriculas[id].importe_pendiente = 0

(***************************************************************************)
(* Claims on the effects of cancel and revert, and on the invoices.        *)
(***************************************************************************)
\* C16: action_cancel changes nothing but the state of its enrollment: the
\* rosters, the invoices, the students and every other field of every
\* enrollment (importe_pagado, factura_id) are as before.
C16_CancelarSoloEstado ==
    [][last'.op = "cancel"
       => /\ UNCHANGED <<alumno_clase_rel, facturas, alumnos>>
          /\ matriculas' =
                IF last'.errs = {}
                THEN [matriculas EXCEPT ![last'.id].state = "cancelled"]
                ELSE matriculas
      ]_vars

C16_Witness ==
    /\ last.op = "cancel"
    /\ last.errs = {}
    /\ matriculas[last.id].state = "cancelled"
    /\ matriculas[last.id].importe_pagado = 500
    /\ matriculas[last.id].clase_id = "k1"
    /\ <<matriculas[last.id].alumno_id, "k1">> \in alumno_clase_rel

\* C17: action_draft succeeds exactly when the enrollment is confirmed or
\* cancelled; it then sets the state draft and changes no other field
\* (importe_pagado, factura_id), and it never changes a roster or an invoice.
C17_BorradorSoloEstado ==
    [][last'.op = "draft"
       => /\ (last'.errs = {})
                <=> matriculas[last'.id].state \in {"confirmed", "cancelled"}
          /\ UNCHANGED <<alumno_clase_rel, facturas>>
          /\ matriculas' =
                IF last'.errs = {}
                THEN [matriculas EXCEPT ![last'.id].state = "draft"]
                ELSE matriculas
      ]_vars

C17_Witness ==
    /\ last.op = "draft"
    /\ last.errs = {}
    /\ matriculas[last.id].state = "draft"
    /\ matriculas[last.id].importe_pagado = 500
    /\ matriculas[last.id].clase_id = "k1"
    /\ <<matriculas[last.id].alumno_id, "k1">> \in alumno_clase_rel

\* C18: an invoice appears only by a successful action_pay, one at a time,
\* on an enrollment that had no invoice; an enrollment that has an invoice
\* keeps that one for ever; and no two enrollments link the same invoice.
C18_UnaFacturaPorMatricula ==
    [][/\ Len(facturas') # Len(facturas)
            => /\ last'.op = "pay"
               /\ Len(facturas') = Len(facturas) + 1
               /\ matriculas[last'.id].factura_id = 0
               /\ matriculas'[last'.id].factura_id = Len(facturas')
       /\ \A id \in DOMAIN matriculas :
            /\ matriculas[id].factura_id # 0
                  => matriculas'[id].factura_id = matriculas[id].factura_id
            /\ matriculas'[id].factura_id # matriculas[id].factura_id
                  => Len(facturas') = Len(facturas) + 1
       /\ \A i \in DOMAIN matriculas', j \in DOMAIN matriculas' :
            (i # j /\ matriculas'[i].factura_id # 0)
            => matriculas'[i].factura_id # matriculas'[j].factura_id
      ]_vars

C18_Witness ==
    /\ Len(matriculas) = 2
    /\ Len(facturas) = 2
    /\ matriculas[1].state = "paid"
    /\ matriculas[2].state = "paid"
    /\ matriculas[1].factura_id # matriculas[2].factura_id
    /\ last.op = "pay"
    /\ last.errs = {"state"}

\* C35: after every step the invoices have pairwise distinct numbers; an
\* invoice created while the sequence gives no value is numbered 'Nuevo';
\* and action_pay on a confirmed enrollment while the sequence gives no value
\* and an invoice numbered 'Nuevo' exists is rejected by the unique
\* constraint and leaves the enrollments and the invoices as they were.
C35_NumerosDistintos ==
    [][/\ \A i \in DOMAIN facturas', j \in DOMAIN facturas' :
            i # j => facturas'[i].name # facturas'[j].name
       /\ \A id \in DOMAIN matriculas :
            (/\ last'.op = "pay"
             /\ Matricula_action_pay(id, FALSE)
             /\ matriculas[id].state = "confirmed")
            => IF \E f \in DOMAIN facturas : facturas[f].name = Nuevo
               THEN /\ "name_unique" \in last'.errs
                    /\ UNCHANGED <<matriculas, facturas>>
                    /\ matriculas'[id].state = "confirmed"
               ELSE /\ last'.errs = {}
                    /\ facturas'[Len(facturas')].name = Nuevo
      ]_vars

\* the second payment without a sequence was rejected: the invoice of the
\* first is numbered 'Nuevo' and the second enrollment is still confirmed
C35_Witness ==
    /\ last.op = "pay"
    /\ "name_unique" \in last.errs
    /\ Len(facturas) = 1
    /\ facturas[1].name = Nuevo
    /\ \E id \in DOMAIN matriculas :
          /\ id # last.id
          /\ matriculas[id].state = "paid"
          /\ matriculas[id].factura_id = 1
    /\ matriculas[last.id].state = "confirmed"
    /\ matriculas[last.id].importe_pagado = 0
    /\ matriculas[last.id].factura_id = 0

\* the states from which each action is legal
EstadosLegales ==
    [confirm |-> {"draft"}, pay |-> {"confirmed"},
     cancel |-> {"draft", "confirmed", "cancelled"},
     draft |-> {"confirmed", "cancelled"}]

\* C20: an action called on a record set of several enrollments, one of
\* which is in a state where the action is illegal, fails, and afterwards
\* every enrollment, roster, invoice and student is as before the call.
C20_LoteAtomico ==
    [][(/\ last'.op \in MatriculaOps
        /\ Len(last'.ids) > 1
        /\ \E i \in DOMAIN last'.ids :
              matriculas[last'.ids[i]].state \notin EstadosLegales[last'.op])
       => /\ last'.errs # {}
          /\ UNCHANGED <<matriculas, alumno_clase_rel, facturas, alumnos>>
      ]_vars

C20_Witness ==
    /\ last.op = "confirm"
    /\ last.ids = <<1, 2>>
    /\ last.errs = {"state"}
    /\ matriculas[1].state = "draft"
    /\ matriculas[1].clase_id = "k1"
    /\ <<matriculas[1].alumno_id, "k1">> \notin alumno_clase_rel
    /\ matriculas[2].state = "cancelled"

(***************************************************************************)
(* Claims on concurrent requests.                                          *)
(***************************************************************************)
\* the invoices of the student of enrollment id (each student has at most
\* one enrollment under SpecConcurrente)
FacturasDe(id) ==
    {f \in DOMAIN facturas : facturas[f].alumno_id = matriculas[id].alumno_id}

\* C19: after any interleaving of concurrent requests no two sessions of the
\* same teacher and date overlap, and every enrollment has exactly one
\* invoice when it is paid and none otherwise.
C19_Concurrencia ==
    /\ \A a \in DOMAIN sesiones, b \in DOMAIN sesiones :
          (/\ a # b
           /\ sesiones[a].profesor_id = sesiones[b].profesor_id
           /\ sesiones[a].date = sesiones[b].date)
          => ~Solapa(sesiones[a], sesiones[b])
    /\ \A id \in DOMAIN matriculas :
          Cardinality(FacturasDe(id))
              = IF matriculas[id].state = "paid" THEN 1 ELSE 0

(***************************************************************************)
(* Claims on the key of the enrollments.                                   *)
(***************************************************************************)
ClaveMatricula(rec) == <<rec.alumno_id, rec.curso_id, rec.fecha_inicio>>

\* C21: after every step no two enrollments, whatever their states, have the
\* same student, course and fecha_inicio; a create, or a write of the student
\* or of fecha_inicio, that would give an enrollment the key of another one
\* is rejected and changes no enrollment.
C21_ClaveUnica ==
    [][/\ \A i \in DOMAIN matriculas', j \in DOMAIN matriculas' :
            i # j => ClaveMatricula(matriculas'[i])
                        # ClaveMatricula(matriculas'[j])
       /\ \A vals \in UnicaVals :
            (/\ last'.op = "create"
             /\ MatriculaCreate(vals)
             /\ \E o \in DOMAIN matriculas :
                   ClaveMatricula(matriculas[o])
                       = ClaveMatricula(Apply(MatriculaDefaults, vals)))
            => /\ last'.errs # {}
               /\ UNCHANGED matriculas
       /\ \A id \in MatriculaIds, vals \in UnicaWriteVals :
            (/\ last'.op = "write.clave"
             /\ Matricula_write(id, vals, "write.clave")
             /\ \E o \in DOMAIN matriculas \ {id} :
                   ClaveMatricula(matriculas[o])
                       = ClaveMatricula(Apply(matriculas[id], vals)))
            => /\ last'.errs # {}
               /\ UNCHANGED matriculas
      ]_vars

C21_Witness ==
    /\ last.op = "create"
    /\ last.errs = {"unique"}
    /\ Len(matriculas) = 1
    /\ matriculas[1].state = "cancelled"

\* pending with a due date earlier than today
PendienteVencida(rec, hoy) ==
    rec.state = "pending" /\ rec.due_date # 0 /\ rec.due_date < hoy

\* the amounts of the invoices of student a that are pending and past due
RECURSIVE SumaVencidas(_, _, _, _)
SumaVencidas(fs, a, hoy, n) ==
    IF n = 0 THEN 0
    ELSE SumaVencidas(fs, a, hoy, n - 1)
         + (IF fs[n].alumno_id = a /\ PendienteVencida(fs[n], hoy)
            THEN fs[n].amount ELSE 0)

\* C33: action_check_overdue moves to overdue exactly the invoices that are
\* pending with a due date earlier than today and leaves the others as they
\* are; an invoice it moves has is_overdue false and days_overdue 0
\* afterwards, and its amount leaves the pending balance of its student.
C33_MarcaVencidas ==
    [][last'.op = "factura.check_overdue" =>
          /\ DOMAIN facturas' = DOMAIN facturas
          /\ \A f \in DOMAIN facturas :
                IF PendienteVencida(facturas[f], today)
                THEN /\ facturas'[f].state = "overdue"
                     /\ facturas'[f].is_overdue = FALSE
                     /\ facturas'[f].days_overdue = 0
                ELSE facturas'[f] = facturas[f]
          /\ \A a \in Alumnos :
                Alumno_compute_saldo_pendiente(facturas', a)
                  = Alumno_compute_saldo_pendiente(facturas, a)
                    - SumaVencidas(facturas, a, today, Len(facturas))]_vars

\* C32: an invoice has a payment date exactly when it is paid.
C32_FechaPagoSiPagada ==
    \A f \in DOMAIN facturas :
        facturas[f].payment_date # 0 <=> facturas[f].state = "paid"

\* C31: action_pay changes the state of a student only from draft to
\* enrolled, and only of the student of the enrollment paid; a student in
\* another state keeps it, and action_confirm, action_cancel and
\* action_draft change the state of no student.
C31_SoloPromueveBorrador ==
    [][last'.op \in MatriculaOps =>
          /\ last'.op # "pay" => alumnos' = alumnos
          /\ last'.op = "pay" =>
                \A a \in Alumnos :
                   /\ alumnos'[a] # alumnos[a]
                         => /\ alumnos[a].state = "draft"
                            /\ alumnos'[a].state = "enrolled"
                            /\ a = matriculas[last'.id].alumno_id
                            /\ last'.errs = {}
                   /\ (/\ last'.errs = {}
                       /\ a = matriculas[last'.id].alumno_id
                       /\ alumnos[a].state = "draft")
                         => alumnos'[a].state = "enrolled"]_vars

\* a suspended student has paid an enrollment and is still suspended
C31_Witness ==
    /\ last.op = "pay"
    /\ last.errs = {}
    /\ matriculas[last.id].state = "paid"
    /\ alumnos[matriculas[last.id].alumno_id].state = "suspended"

\* C30: an enrollment created in draft and changed by the four actions only
\* has an invoice exactly when it is paid, and has nothing paid in any other
\* state.
C30_FacturaSiPagada ==
    \A id \in DOMAIN matriculas :
        /\ matriculas[id].factura_id # 0 <=> matriculas[id].state = "paid"
        /\ matriculas[id].state # "paid" => matriculas[id].importe_pagado = 0

\* the payment of a confirmed enrollment failed at the creation of the
\* invoice, after another enrollment was paid
C30_Witness ==
    /\ last.op = "pay"
    /\ last.errs # {}
    /\ "state" \notin last.errs
    /\ matriculas[last.id].state = "confirmed"
    /\ \E id \in DOMAIN matriculas :
          /\ matriculas[id].state = "paid"
          /\ matriculas[id].factura_id # 0
          /\ matriculas[id].importe_pagado = matriculas[id].importe_total

\* C29: a paid enrollment has importe_pagado = importe_total and nothing
\* pending, also after descuento, importe_matricula or the price of its
\* course is written.
C29_PagadaSinPendiente ==
    \A id \in DOMAIN matriculas :
        matriculas[id].state = "paid"
        => /\ matriculas[id].importe_pagado = matriculas[id].importe_total
           /\ matriculas[id].importe_pendiente = 0

\* the words that name a state of an enrollment
PalabrasEstado(st) ==
    CASE st = "draft" -> {"borrador"}
      [] st = "confirmed" -> {"confirmada", "confirmadas"}
      [] st = "paid" -> {"pagada", "pagadas"}
      [] st = "cancelled" -> {"cancelada", "canceladas"}

\* the words that name what an action asks for: its verb or the state it
\* leads to
PalabrasAccion(op) ==
    CASE op = "confirm" -> {"confirmar"} \cup PalabrasEstado("confirmed")
      [] op = "pay" -> {"pagar"} \cup PalabrasEstado("paid")
      [] op = "cancel" -> {"cancelar"} \cup PalabrasEstado("cancelled")
      [] op = "draft" -> PalabrasEstado("draft")

Nombra(msg, palabras) == \E i \in DOMAIN msg : msg[i] \in palabras

EstadosCondicion ==
    [confirm |-> {"draft"}, pay |-> {"confirmed"}, cancel |-> {"paid"},
     draft |-> {"confirmed", "cancelled"}]

C27_EscrituraClase ==
    [][/\ last'.op = "clase.alumno_ids" =>
            \A k \in Clases, a \in Alumnos :
               (/\ a \notin Roster(DB, k)
                /\ Cardinality(Roster(DB, k)) + 1 > clases[k].max_students
                /\ Clase_write_alumno_ids(k, 4, a))
               => /\ last'.errs # {}
                  /\ UNCHANGED <<alumno_clase_rel, clases>>
       /\ last'.op = "clase.max_students" =>
            \A k \in Clases, n \in MaxStudentsVals :
               (/\ n < Cardinality(Roster(DB, k))
                /\ Clase_write_max_students(k, n))
               => /\ last'.errs # {}
                  /\ UNCHANGED <<alumno_clase_rel, clases>>]_vars

\* a write of max_students = 1 on a class of two students was rejected
C27_Witness ==
    /\ last.op = "clase.max_students"
    /\ "capacidad" \in last.errs
    /\ "sql" \notin last.errs
    /\ Cardinality(Roster(DB, last.id)) = 2
    /\ clases[last.id].max_students = 2

\* C26: a course that has a class is not deleted, and the course, the
\* classes and the sessions stay as they were; a course that is deleted
\* leaves no session of its own.
C26_BorrarCurso ==
    [][last'.op = "curso.unlink" =>
          LET c == last'.curso IN
          /\ (\E k \in DOMAIN clases : clases[k].curso_id = c)
                 => /\ last'.errs # {}
                    /\ UNCHANGED <<cursos, clases, sesiones>>
          /\ last'.errs = {}
                 => /\ c \notin DOMAIN cursos'
                    /\ \A i \in DOMAIN sesiones' : sesiones'[i].curso_id # c
                    /\ Len(sesiones') =
                          Cardinality({i \in DOMAIN sesiones :
                                          sesiones[i].curso_id # c})]_vars

\* a course was deleted with one of its sessions, and a session of another
\* course is kept
C26_Witness ==
    /\ last.op = "curso.unlink"
    /\ last.errs = {}
    /\ last.borradas > 0
    /\ Len(sesiones) > 0

\* the check of session a finds session b in conflict
VeConflicto(a, b) ==
    /\ b \in SesionSearchDomain(sesiones, a)
    /\ Solapa(sesiones[a], sesiones[b])

\* C25: for two sessions of the same teacher and date, both not cancelled,
\* the check of the first finds the second in conflict exactly when the
\* check of the second finds the first in conflict.
C25_Simetria ==
    \A a \in DOMAIN sesiones, b \in DOMAIN sesiones :
        (/\ a # b
         /\ sesiones[a].profesor_id = sesiones[b].profesor_id
         /\ sesiones[a].date = sesiones[b].date
         /\ sesiones[a].state # "cancelled"
         /\ sesiones[b].state # "cancelled")
        => (VeConflicto(a, b) <=> VeConflicto(b, a))

(***************************************************************************)
(* Claims on the color of a session.                                       *)
(***************************************************************************)
\* the color by the first rule that matches, for a session in state st with
\* `seats` seats and n attendees
ColorEsperado(st, seats, n) ==
    IF st = "cancelled" THEN 1
    ELSE IF st = "done" THEN 10
    ELSE IF n >= seats THEN 1
    ELSE IF n * 100 >= 80 * seats THEN 2
    ELSE IF n * 100 >= 50 * seats THEN 3
    ELSE 4

\* C23: the color computed for a session is the one of the first matching
\* rule of: cancelled red (1), done green (10), full red (1), occupancy >= 80%
\* orange (2), occupancy >= 50% yellow (3), else light blue (4); so done is
\* green at any occupancy, draft at 85% is orange, draft at 40% is light
\* blue, and a draft or confirmed session with no seats is red.
C23_Color ==
    last.op = "compute"
    => LET r == last.sesion IN
       /\ r.color = ColorEsperado(r.state, r.seats, r.total_asistentes)
       /\ r.state = "done" => r.color = 10
       /\ (r.state = "draft" /\ r.seats = 20 /\ r.total_asistentes = 17)
             => r.color = 2
       /\ (r.state = "draft" /\ r.seats = 20 /\ r.total_asistentes = 8)
             => r.color = 4
       /\ (r.state \in {"draft", "confirmed"} /\ r.seats = 0)
             => (r.occupancy_rate = 0 /\ r.is_full /\ r.color = 1)

C23_Witness ==
    /\ last.op = "compute"
    /\ last.sesion.state = "done"
    /\ last.sesion.seats = 20
    /\ last.sesion.total_asistentes = 20
    /\ last.sesion.is_full
    /\ last.sesion.color = 10

(***************************************************************************)
(* Claims on the invoices.                                                 *)
(***************************************************************************)
\* C22: in every reachable state, also after the clock alone advanced, an
\* invoice is flagged is_overdue exactly when it is pending and its due_date
\* is set and earlier than today, and days_overdue is today - due_date when
\* it is overdue and 0 otherwise.
C22_Vencida ==
    \A f \in DOMAIN facturas :
        LET vencida == /\ facturas[f].state = "pending"
                       /\ facturas[f].due_date # 0
                       /\ facturas[f].due_date < today
        IN  /\ facturas[f].is_overdue <=> vencida
            /\ facturas[f].days_overdue
                  = IF vencida THEN today - facturas[f].due_date ELSE 0

\* C24: after every step every invoice has amount >= 0 and, when
\* payment_date is set, payment_date >= date; action_pay on an invoice whose
\* date is later than today is rejected and leaves the invoices unchanged.
C24_FechaPago ==
    [][/\ \A f \in DOMAIN facturas' :
            /\ facturas'[f].amount >= 0
            /\ facturas'[f].payment_date # 0
                  => facturas'[f].payment_date >= facturas'[f].date
       /\ (/\ last'.op = "factura.pay"
           /\ facturas[last'.id].date > today)
          => /\ last'.errs # {}
             /\ UNCHANGED facturas
      ]_vars

C24_Witness ==
    /\ last.op = "factura.pay"
    /\ last.errs = {"payment_date"}
    /\ facturas[last.id].date > today
    /\ facturas[last.id].state = "pending"
    /\ facturas[last.id].payment_date = 0

====
